---- MODULE Spec2Model ----
(***************************************************************************)
(* Model of the Huskers men's basketball schedule pipeline:                *)
(*   scripts/scrape_huskers_mbb.py      (Extractor, parse_event)           *)
(*   scripts/normalize_mbb_schedule.py  (Normalizer, normalize / main)     *)
(*                                                                         *)
(* Python strings are sequences of one-character strings, JSON values are  *)
(* tagged records, and every helper is computed the way the code computes  *)
(* it (strip, lower, the regular expressions, the f-string formatting, the *)
(* stable sort on the (date, time) key).                                   *)
(***************************************************************************)
EXTENDS Integers, Sequences, FiniteSets, TLC

VARIABLES rawFile,   \* contents of data/mbb_raw.json
          outFile,   \* contents of data/mbb_schedule_normalized.json
          now,       \* the wall clock, a UTC instant [y, m, d, h]
          lastRun,   \* how the last run of main() ended, and what it read
          ev,        \* the event row handed to parse_event
          parsed     \* what parse_event returned for ev

vars == <<rawFile, outFile, now, lastRun, ev, parsed>>

(***************************************************************************)
(* Characters and strings                                                  *)
(***************************************************************************)

\* The characters of the model in code-point order (str comparison in
\* Python is by code point).
Alphabet ==
  <<" ", "#", "+", "-", ".", "0", "1", "2", "3", "4", "5", "6", "7", "8", "9", ":",
    "A", "B", "C", "D", "E", "F", "G", "H", "I", "J", "K", "L", "M", "N", "O",
    "P", "Q", "R", "S", "T", "U", "V", "W", "X", "Y", "Z",
    "a", "b", "c", "d", "e", "f", "g", "h", "i", "j", "k", "l", "m", "n", "o",
    "p", "q", "r", "s", "t", "u", "v", "w", "x", "y", "z">>

AlphabetSet == {Alphabet[i] : i \in DOMAIN Alphabet}

\* ord(c), up to the order-preserving renumbering of the model's characters
OrdTable == [c \in AlphabetSet |-> CHOOSE i \in DOMAIN Alphabet : Alphabet[i] = c]
Ord(c) == OrdTable[c]

Digits == <<"0", "1", "2", "3", "4", "5", "6", "7", "8", "9">>
Upper  == <<"A", "B", "C", "D", "E", "F", "G", "H", "I", "J", "K", "L", "M",
            "N", "O", "P", "Q", "R", "S", "T", "U", "V", "W", "X", "Y", "Z">>
Lower  == <<"a", "b", "c", "d", "e", "f", "g", "h", "i", "j", "k", "l", "m",
            "n", "o", "p", "q", "r", "s", "t", "u", "v", "w", "x", "y", "z">>

DigitSet == {Digits[i] : i \in DOMAIN Digits}
UpperSet == {Upper[i] : i \in DOMAIN Upper}
LowerSet == {Lower[i] : i \in DOMAIN Lower}

SpaceSet == {" "}
AlphaSet == UpperSet \cup LowerSet
\* \w of the re module, on the model's characters
WordSet  == AlphaSet \cup DigitSet

IsSpace(c) == c \in SpaceSet
IsDigit(c) == c \in DigitSet
IsUpper(c) == c \in UpperSet
IsWord(c)  == c \in WordSet

DigitTable == [c \in DigitSet |-> (CHOOSE i \in DOMAIN Digits : Digits[i] = c) - 1]
DigitVal(c) == DigitTable[c]

\* str.lower(), one character
LowerTable == [c \in UpperSet |-> Lower[CHOOSE i \in DOMAIN Upper : Upper[i] = c]]
LowerChar(c) == IF IsUpper(c) THEN LowerTable[c] ELSE c

\* str.lower()
LowerStr(s) == [i \in DOMAIN s |-> LowerChar(s[i])]

Min(S) == CHOOSE x \in S : \A y \in S : x <= y
Max(S) == CHOOSE x \in S : \A y \in S : y <= x

\* First index j >= i of s whose character is not in class, Len(s)+1 when
\* none: where a greedy run of class characters starting at i ends.
RECURSIVE SkipWhile(_, _, _)
SkipWhile(s, i, class) ==
  IF i > Len(s) \/ s[i] \notin class THEN i ELSE SkipWhile(s, i + 1, class)

\* Last index j <= i of s whose character is not in class, 0 when none
RECURSIVE SkipBack(_, _, _)
SkipBack(s, i, class) ==
  IF i < 1 \/ s[i] \notin class THEN i ELSE SkipBack(s, i - 1, class)

\* s.strip(chars)
StripChars(s, class) ==
  SubSeq(s, SkipWhile(s, 1, class), SkipBack(s, Len(s), class))

\* str.strip()
Strip(s) == StripChars(s, SpaceSet)

\* s[i:i+len(p)] == p
MatchAt(s, i, p) ==
  /\ i + Len(p) - 1 <= Len(s)
  /\ \A k \in DOMAIN p : s[i + k - 1] = p[k]

\* str.startswith
StartsWith(s, p) == MatchAt(s, 1, p)

\* p in s
Contains(s, p) == \E i \in 1..(Len(s) + 1) : MatchAt(s, i, p)

\* s.replace(c, "")
RemoveChar(s, c) == SelectSeq(s, LAMBDA x : x # c)

\* s[:n]
Prefix(s, n) == SubSeq(s, 1, IF Len(s) < n THEN Len(s) ELSE n)

\* a < b on str: lexicographic by code point
RECURSIVE StrLessFrom(_, _, _)
StrLessFrom(a, b, i) ==
  IF i > Len(b) THEN FALSE
  ELSE IF i > Len(a) THEN TRUE
  ELSE IF a[i] = b[i] THEN StrLessFrom(a, b, i + 1)
  ELSE Ord(a[i]) < Ord(b[i])

StrLess(a, b) == StrLessFrom(a, b, 1)

\* int(s) for a string of decimal digits
RECURSIVE ParseInt(_)
ParseInt(s) ==
  IF s = <<>> THEN 0
  ELSE ParseInt(SubSeq(s, 1, Len(s) - 1)) * 10 + DigitVal(s[Len(s)])

\* str(n) for n >= 0
RECURSIVE IntStr(_)
IntStr(n) ==
  IF n < 10 THEN <<Digits[n + 1]>>
  ELSE IntStr(n \div 10) \o <<Digits[(n % 10) + 1]>>

\* f"{n:0<w>d}" for n >= 0
RECURSIVE ZeroPad(_, _)
ZeroPad(s, w) == IF Len(s) >= w THEN s ELSE ZeroPad(<<"0">> \o s, w)

FormatInt(n, w) == ZeroPad(IntStr(n), w)

(***************************************************************************)
(* JSON values                                                             *)
(***************************************************************************)

JNull     == [t |-> "null"]
JStr(s)   == [t |-> "str", v |-> s]
JInt(n)   == [t |-> "int", v |-> n]
JList(l)  == [t |-> "list", v |-> l]
JObj(f)   == [t |-> "obj", v |-> f]

IsNull(x) == x.t = "null"
IsStr(x)  == x.t = "str"
IsObj(x)  == x.t = "obj"

\* dict.get(k): the value, None when the key is missing
Get(o, k) == IF k \in DOMAIN o.v THEN o.v[k] ELSE JNull

\* Python truthiness, as `x or y` and `if x` use it
Truthy(x) ==
  CASE x.t = "null" -> FALSE
    [] x.t = "str"  -> x.v # <<>>
    [] x.t = "int"  -> x.v # 0
    [] x.t = "list" -> x.v # <<>>
    [] x.t = "obj"  -> DOMAIN x.v # {}

\* x or y
Or(x, y) == IF Truthy(x) THEN x ELSE y

\* str(x) as an f-string renders it
Format(x) ==
  CASE x.t = "null" -> <<"N", "o", "n", "e">>
    [] x.t = "str"  -> x.v
    [] x.t = "int"  -> IntStr(x.v)
    [] OTHER        -> <<>>

(***************************************************************************)
(* Calendar and the capture timestamp (normalize_mbb_schedule.py)          *)
(***************************************************************************)

IsLeap(y) == (y % 4 = 0 /\ y % 100 # 0) \/ y % 400 = 0

DaysInMonth(y, m) ==
  IF m = 2 THEN (IF IsLeap(y) THEN 29 ELSE 28)
  ELSE IF m \in {4, 6, 9, 11} THEN 30 ELSE 31

\* 0 = Sunday ... 6 = Saturday (proleptic Gregorian calendar)
DayOfWeek(y, m, d) ==
  LET t  == <<0, 3, 2, 5, 0, 3, 5, 1, 4, 6, 2, 4>>
      yy == IF m < 3 THEN y - 1 ELSE y
  IN  (yy + (yy \div 4) - (yy \div 100) + (yy \div 400) + t[m] + d) % 7

\* The n-th Sunday of month m of year y
NthSunday(y, m, n) ==
  CHOOSE d \in (7 * (n - 1) + 1)..(7 * n) : DayOfWeek(y, m, d) = 0

\* Whether US Central daylight time is in force at the UTC instant u:
\* from 2:00 CST (08:00 UTC) on the second Sunday of March to 2:00 CDT
\* (07:00 UTC) on the first Sunday of November.
CentralIsDST(u) ==
  LET start == NthSunday(u.y, 3, 2)
      stop  == NthSunday(u.y, 11, 1)
  IN  \/ u.m \in 4..10
      \/ u.m = 3  /\ (u.d > start \/ (u.d = start /\ u.h >= 8))
      \/ u.m = 11 /\ (u.d < stop  \/ (u.d = stop  /\ u.h < 7))

\* datetime.astimezone(CENTRAL): the civil time in America/Chicago of the
\* UTC instant u (UTC-5 under daylight time, UTC-6 otherwise).
CENTRAL(u) ==
  LET off == IF CentralIsDST(u) THEN 5 ELSE 6
  IN  IF u.h >= off THEN [year |-> u.y, month |-> u.m, day |-> u.d, hour |-> u.h - off]
      ELSE IF u.d > 1 THEN [year |-> u.y, month |-> u.m, day |-> u.d - 1, hour |-> u.h + 24 - off]
      ELSE IF u.m > 1
           THEN [year |-> u.y, month |-> u.m - 1, day |-> DaysInMonth(u.y, u.m - 1),
                 hour |-> u.h + 24 - off]
      ELSE [year |-> u.y - 1, month |-> 12, day |-> 31, hour |-> u.h + 24 - off]

\* scraped_at.replace("Z", "+00:00")
RECURSIVE ReplaceZ(_)
ReplaceZ(s) ==
  IF s = <<>> THEN <<>>
  ELSE IF Head(s) = "Z" THEN <<"+", "0", "0", ":", "0", "0">> \o ReplaceZ(Tail(s))
       ELSE <<Head(s)>> \o ReplaceZ(Tail(s))

\* The shape YYYY-MM-DDTHH:MM:SS+00:00 (what the scraper writes, to the second)
IsoShape(s) ==
  /\ Len(s) = 25
  /\ \A i \in {1, 2, 3, 4, 6, 7, 9, 10, 12, 13, 15, 16, 18, 19} : IsDigit(s[i])
  /\ s[5] = "-" /\ s[8] = "-" /\ s[11] = "T" /\ s[14] = ":" /\ s[17] = ":"
  /\ SubSeq(s, 20, 25) = <<"+", "0", "0", ":", "0", "0">>

IsoFields(s) ==
  [y |-> ParseInt(SubSeq(s, 1, 4)), m |-> ParseInt(SubSeq(s, 6, 7)),
   d |-> ParseInt(SubSeq(s, 9, 10)), h |-> ParseInt(SubSeq(s, 12, 13)),
   mi |-> ParseInt(SubSeq(s, 15, 16)), sec |-> ParseInt(SubSeq(s, 18, 19))]

\* Whether datetime.fromisoformat(s) returns (rather than raising ValueError),
\* for the UTC timestamps of the shape above; any other text raises.
IsoParses(s) ==
  /\ IsoShape(s)
  /\ LET f == IsoFields(s)
     IN  /\ f.y >= 1 /\ f.m \in 1..12 /\ f.d \in 1..DaysInMonth(f.y, f.m)
         /\ f.h \in 0..23 /\ f.mi \in 0..59 /\ f.sec \in 0..59

\* A `scraped` that ignores scraped_at and always reads the clock
scraped_central_now(scraped_at, clock) == CENTRAL(clock)

\* The `scraped` of normalize(): the capture timestamp in Central time, or
\* datetime.now(CENTRAL) when parsing raises (any exception is caught; a
\* scraped_at that is not a str raises AttributeError on .replace).
scraped_central(scraped_at, clock) ==
  LET x == Or(scraped_at, JStr(<<>>))
      s == IF IsStr(x) THEN ReplaceZ(x.v) ELSE <<>>
  IN  IF IsStr(x) /\ IsoParses(s)
      THEN LET f == IsoFields(s) IN CENTRAL([y |-> f.y, m |-> f.m, d |-> f.d, h |-> f.h])
      ELSE CENTRAL(clock)

detect_season_start_year(scraped) ==
  IF scraped.month <= 3 THEN scraped.year - 1 ELSE scraped.year

\* MONTH_IDX.get(key), 0 standing for None
MONTH_IDX(key) ==
  CASE key = <<"j", "a", "n">> -> 1
    [] key = <<"f", "e", "b">> -> 2
    [] key = <<"m", "a", "r">> -> 3
    [] key = <<"a", "p", "r">> -> 4
    [] key = <<"m", "a", "y">> -> 5
    [] key = <<"j", "u", "n">> -> 6
    [] key = <<"j", "u", "l">> -> 7
    [] key = <<"a", "u", "g">> -> 8
    [] key = <<"s", "e", "p">> -> 9
    [] key = <<"o", "c", "t">> -> 10
    [] key = <<"n", "o", "v">> -> 11
    [] key = <<"d", "e", "c">> -> 12
    [] OTHER -> 0

\* [A-Za-z.]
MonthCharSet == AlphaSet \cup {"."}

\* re.match(r"\s*([A-Za-z.]+)\s+(\d{1,2})\s*$", label): the two groups, or
\* ok = FALSE when there is no match.  Every run is greedy and the classes
\* of neighbouring runs are disjoint, so the match is the only candidate.
date_text_match(label) ==
  LET i0 == SkipWhile(label, 1, SpaceSet)
      i1 == SkipWhile(label, i0, MonthCharSet)
      i2 == SkipWhile(label, i1, SpaceSet)
      i3 == SkipWhile(label, i2, DigitSet)
      i4 == SkipWhile(label, i3, SpaceSet)
  IN  IF i1 > i0 /\ i2 > i1 /\ i3 - i2 \in {1, 2} /\ i4 = Len(label) + 1
      THEN [ok |-> TRUE, mon |-> SubSeq(label, i0, i1 - 1), day |-> SubSeq(label, i2, i3 - 1)]
      ELSE [ok |-> FALSE, mon |-> <<>>, day |-> <<>>]

\* A season whose months all fall in the start year
season_year_no_rollover(mon, season_start_year) == season_start_year

\* Which year a month of the season falls in
season_year(mon, season_start_year) ==
  IF mon < 8 THEN season_start_year + 1 ELSE season_start_year

\* parse_date_from_text for a label that is None or a str: 'YYYY-MM-DD' or None
parse_date_from_text(label, season_start_year) ==
  IF ~Truthy(label) THEN JNull
  ELSE LET m == date_text_match(label.v)
       IN  IF ~m.ok THEN JNull
           ELSE LET mon_token == RemoveChar(m.mon, ".")
                    mon_key   == LowerStr(Prefix(mon_token, 3))
                    mon       == MONTH_IDX(mon_key)
                    day       == ParseInt(m.day)
                    year      == season_year(mon, season_start_year)
                IN  IF mon = 0 THEN JNull
                    ELSE JStr(FormatInt(year, 4) \o <<"-">> \o FormatInt(mon, 2)
                              \o <<"-">> \o FormatInt(day, 2))

(***************************************************************************)
(* normalize() (normalize_mbb_schedule.py)                                 *)
(***************************************************************************)

\* [a-z0-9]
SlugSet == LowerSet \cup DigitSet

\* re.sub(run, by, s) for the runs of the characters of `class` (of the
\* characters outside it when `negated`, as in [^...]): a run's first
\* character becomes `by`, its other characters go
sub_runs(s, class, negated, by) ==
  LET marked == [i \in DOMAIN s |->
                   IF (s[i] \in class) = negated THEN s[i]
                   ELSE IF i = 1 \/ (s[i - 1] \in class) = negated THEN by ELSE ""]
  IN  SelectSeq(marked, LAMBDA c : c # "")

\* re.sub(r"[^a-z0-9]+", "-", s)
sub_non_alnum(s) == sub_runs(s, SlugSet, TRUE, "-")

\* re.sub(r"-+", "-", s)
sub_dashes(s) == sub_runs(s, {"-"}, FALSE, "-")

\* slug(s): lowercase, dash-separated key
slug(s) == StripChars(sub_dashes(sub_non_alnum(Strip(LowerStr(s)))), {"-"})

PRESENTED_BY == <<"p","r","e","s","e","n","t","e","d"," ","b","y">>

\* re.sub(r"\s*presented by\b.*$", "", arena, flags=re.I): the text up to the
\* leftmost place where blanks, then "presented by" at a word end, begin.
strip_presented_by(s) ==
  LET ls   == LowerStr(s)
      hits == {i \in 1..Len(s) :
                 LET j == SkipWhile(s, i, SpaceSet)
                     e == j + Len(PRESENTED_BY)
                 IN  MatchAt(ls, j, PRESENTED_BY) /\ (e > Len(s) \/ ~IsWord(s[e]))}
  IN  IF hits = {} THEN s ELSE SubSeq(s, 1, Min(hits) - 1)

OPENING_NIGHT ==
  <<"o","p","e","n","i","n","g"," ","n","i","g","h","t"," ","p","r","e","s","e","n","t",
    "e","d"," ","b","y"," ","s","c","h","e","e","l","s">>
BIG_TEN == <<"b","i","g"," ","t","e","n"," ">>

\* "opening night presented by scheels" in opp_lower
is_opening_night(opp_lower) == Contains(opp_lower, OPENING_NIGHT)

\* A filter that knows only the bare name "big ten"
is_big_ten_exact(opp_lower) == opp_lower = <<"b","i","g"," ","t","e","n">>

\* opp_lower.startswith("big ten ")
is_big_ten_placeholder(opp_lower) == StartsWith(opp_lower, BIG_TEN)

FINAL     == JStr(<<"f","i","n","a","l">>)
SCHEDULED == JStr(<<"s","c","h","e","d","u","l","e","d">>)
TBD       == JStr(<<"t","b","d">>)

\* A status that trusts any raw status
derive_status_trusting(raw_status, res) ==
  Or(raw_status, IF Truthy(res) THEN FINAL ELSE SCHEDULED)

\* status = it.get("status") or ("final" if res else "scheduled"), replaced by
\* the inferred value when it is not one of the three
derive_status(raw_status, res) ==
  LET inferred == IF Truthy(res) THEN FINAL ELSE SCHEDULED
      status   == Or(raw_status, inferred)
  IN  IF status \in {FINAL, SCHEDULED, TBD} THEN status ELSE inferred

\* result_str = f"{res.get('outcome')} {res.get('sets')}" when res, else None
derive_result(res) ==
  IF Truthy(res)
  THEN JStr(Format(Get(res, "outcome")) \o <<" ">> \o Format(Get(res, "sets")))
  ELSE JNull

\* result_css = {"W": "W", "L": "L", "T": "T"}.get(res.get("outcome")) when res
derive_result_css(res) ==
  IF Truthy(res) /\ Get(res, "outcome") \in {JStr(<<"W">>), JStr(<<"L">>), JStr(<<"T">>)}
  THEN Get(res, "outcome")
  ELSE JNull

\* (it.get(k) or "").strip() or None
stripped_or_none(x) ==
  LET s == Strip(Or(x, JStr(<<>>)).v)
  IN  IF s = <<>> THEN JNull ELSE JStr(s)

\* The arena after the "presented by" suffix is cut (None stays None)
clean_arena(arena) ==
  IF Truthy(arena) THEN JStr(Strip(strip_presented_by(arena.v))) ELSE arena

\* opp = raw_opp or "TBA": the opponent (and title) of the row
row_opponent(raw_opp) == IF raw_opp # <<>> THEN JStr(raw_opp) ELSE JStr(<<"T","B","A">>)

\* opp_rank = it.get("opp_rank")
row_opp_rank(it) == Get(it, "opp_rank")

\* slug("unknown"), the arena_key of a row without arena
UNKNOWN_KEY == JStr(slug(<<"u","n","k","n","o","w","n">>))

Raise == [k |-> "raise"]
Skip  == [k |-> "skip"]

\* The dict appended to rows for a record that passed the filters
make_row(it, raw_opp, date_iso) ==
  LET arena == clean_arena(stripped_or_none(Get(it, "arena")))
      res   == Get(it, "result")
  IN  [date       |-> date_iso,
       time_local |-> Get(it, "time_local"),
       home_away  |-> Or(Get(it, "venue_type"), JStr(<<"N">>)),
       nu_rank    |-> Get(it, "nu_rank"),
       opponent   |-> row_opponent(raw_opp),
       opp_rank   |-> row_opp_rank(it),
       title      |-> row_opponent(raw_opp),
       arena      |-> arena,
       city       |-> stripped_or_none(Get(it, "city")),
       arena_key  |-> IF Truthy(arena) THEN JStr(slug(arena.v)) ELSE UNKNOWN_KEY,
       nu_logo    |-> Get(it, "nebraska_logo_url"),
       opp_logo   |-> Get(it, "opponent_logo_url"),
       tv_logo    |-> Get(it, "tv_network_logo_url"),
       tv         |-> Or(Get(it, "networks"), JList(<<>>)),
       status     |-> derive_status(Get(it, "status"), res),
       result     |-> derive_result(res),
       result_css |-> derive_result_css(res),
       notes      |-> JNull,
       links      |-> Or(Get(it, "links"), JList(<<>>))]

\* A value on which .strip() raises AttributeError: truthy and not a str
BadStr(x) == Truthy(x) /\ ~IsStr(x)

\* One iteration of the loop of normalize(): the record is skipped
\* (continue), a row is appended, or an exception leaves the function.  The
\* checks come in the order in which the code evaluates them.
normalize_item(it, season_start_year) ==
  IF ~IsObj(it) THEN Raise                                \* it.get
  ELSE IF BadStr(Get(it, "opponent_name")) THEN Raise     \* .strip()
  ELSE
    LET raw_opp   == Strip(Or(Get(it, "opponent_name"), JStr(<<>>)).v)
        opp_lower == LowerStr(raw_opp)
        date0     == Get(it, "date")
        date_text == Get(it, "date_text")
    IN  IF raw_opp = <<>> THEN Skip
        ELSE IF is_opening_night(opp_lower) THEN Skip
        ELSE IF is_big_ten_placeholder(opp_lower) THEN Skip
        ELSE IF ~Truthy(date0) /\ BadStr(date_text) THEN Raise   \* re.match
        ELSE
          LET date_iso == IF Truthy(date0) THEN date0
                          ELSE parse_date_from_text(date_text, season_start_year)
          IN  IF ~Truthy(date_iso) THEN Skip
              ELSE IF BadStr(Get(it, "city")) \/ BadStr(Get(it, "arena")) THEN Raise
              ELSE IF Truthy(Get(it, "result")) /\ ~IsObj(Get(it, "result")) THEN Raise
              ELSE [k |-> "row", row |-> make_row(it, raw_opp, date_iso)]

\* (x.get("date") or "9999-12-31", x.get("time_local") or "23:59")
sort_key(x) ==
  <<Or(x.date, JStr(<<"9","9","9","9","-","1","2","-","3","1">>)).v,
    Or(x.time_local, JStr(<<"2","3",":","5","9">>)).v>>

\* The comparison of a sort in descending order
key_greater(a, b) == StrLess(b[1], a[1]) \/ (a[1] = b[1] /\ StrLess(b[2], a[2]))

\* a < b on the key tuples
key_less(a, b) == StrLess(a[1], b[1]) \/ (a[1] = b[1] /\ StrLess(a[2], b[2]))

\* list.sort(key=...): a stable sort, here by insertion after the last row
\* whose key is not greater
RECURSIVE sort_rows(_)
sort_rows(rows) ==
  IF rows = <<>> THEN <<>>
  ELSE LET n    == Len(rows)
           done == sort_rows(SubSeq(rows, 1, n - 1))
           r    == rows[n]
           keep == {i \in DOMAIN done : ~key_less(sort_key(r), sort_key(done[i]))}
           at   == IF keep = {} THEN 0 ELSE Max(keep)
       IN  SubSeq(done, 1, at) \o <<r>> \o SubSeq(done, at + 1, Len(done))

\* normalize(items, scraped_at), the clock being read when scraped_at does
\* not parse: the sorted rows, or Raise
normalize(items, scraped_at, clock) ==
  LET season_start_year == detect_season_start_year(scraped_central(scraped_at, clock))
      got  == [i \in DOMAIN items |-> normalize_item(items[i], season_start_year)]
      kept == SelectSeq(got, LAMBDA g : g.k = "row")
  IN  IF \E i \in DOMAIN got : got[i].k = "raise" THEN Raise
      ELSE [k |-> "rows", rows |-> sort_rows([i \in DOMAIN kept |-> kept[i].row])]

(***************************************************************************)
(* parse_event() (scrape_huskers_mbb.py): ranks, result, time               *)
(***************************************************************************)

NonSpaceSet == AlphabetSet \ SpaceSet

\* clean(s) for a str: " ".join(s.split())
clean(s) == Strip(sub_runs(s, SpaceSet, FALSE, " "))

\* clean(x) or "" for a text x that safe_text returned (None or a str)
clean_or_empty(x) == IF IsStr(x) THEN clean(x.v) ELSE <<>>

\* re.match(r"#\s*(\d{1,2})\s+(.*)$", name): the rank digits and the rest, or
\* ok = FALSE.  One or two digits must be followed by white space, so a run
\* of three digits has no match.
name_rank_match(name) ==
  LET j == SkipWhile(name, 2, SpaceSet)
      e == SkipWhile(name, j, DigitSet)
  IN  IF /\ Len(name) >= 1 /\ name[1] = "#"
         /\ e - j \in {1, 2}
         /\ e <= Len(name) /\ name[e] \in SpaceSet
      THEN [ok |-> TRUE, rank |-> SubSeq(name, j, e - 1),
            rest |-> SubSeq(name, SkipWhile(name, e, SpaceSet), Len(name))]
      ELSE [ok |-> FALSE, rank |-> <<>>, rest |-> <<>>]

\* re.search(r"#\s*(\d{1,2})", txt) and int(group(1)): JInt of the first
\* "#", blanks, then one or two digits (as many as there are, at most two);
\* JNull when nothing matches
rank_search(txt) ==
  LET hits == {i \in DOMAIN txt :
                 /\ txt[i] = "#"
                 /\ LET j == SkipWhile(txt, i + 1, SpaceSet)
                    IN  j <= Len(txt) /\ txt[j] \in DigitSet}
  IN  IF hits = {} THEN JNull
      ELSE LET j == SkipWhile(txt, Min(hits) + 1, SpaceSet)
               n == IF j + 1 <= Len(txt) /\ txt[j + 1] \in DigitSet THEN 2 ELSE 1
           IN  JInt(ParseInt(SubSeq(txt, j, j + n - 1)))

\* safe_text(...) or ""
text_or_empty(x) == IF IsStr(x) THEN x.v ELSE <<>>

\* The opponent name and rank after step 1 (rank prefix of the name)
name_and_rank(ev0) ==
  LET name == clean_or_empty(ev0.opponent_name)
      m    == name_rank_match(name)
  IN  IF m.ok THEN [opponent_name |-> Strip(m.rest), opp_rank |-> JInt(ParseInt(m.rank))]
      ELSE [opponent_name |-> name, opp_rank |-> JNull]

\* nu_rank: the first logo wrapper's text, else the home rank label
parse_nu_rank(ev0) ==
  LET from_wrapper == IF Len(ev0.wrappers) >= 1
                      THEN rank_search(text_or_empty(ev0.wrappers[1])) ELSE JNull
  IN  IF ~IsNull(from_wrapper) THEN from_wrapper
      ELSE IF Truthy(ev0.home_rank) THEN rank_search(ev0.home_rank.v)
      ELSE JNull

\* opp_rank: the name prefix, else the second logo wrapper's text, else the
\* opponent rank label
parse_opp_rank(ev0) ==
  LET from_name    == name_and_rank(ev0).opp_rank
      from_wrapper == IF Len(ev0.wrappers) >= 2 /\ IsNull(from_name)
                      THEN rank_search(text_or_empty(ev0.wrappers[2])) ELSE from_name
  IN  IF ~IsNull(from_wrapper) THEN from_wrapper
      ELSE IF Truthy(ev0.away_rank) THEN rank_search(ev0.away_rank.v)
      ELSE JNull

\* next((p for p in label.split() if "-" in p), label): the token holding
\* the first hyphen, the whole label when there is none
score_token(label) ==
  LET hy == {i \in DOMAIN label : label[i] = "-"}
  IN  IF hy = {} THEN label
      ELSE SubSeq(label, SkipBack(label, Min(hy), NonSpaceSet) + 1,
                         SkipWhile(label, Min(hy), NonSpaceSet) - 1)

\* status, result and time_local of the row
parse_result(ev0) ==
  LET label == clean_or_empty(ev0.label)
  IN  IF ev0.has_win \/ ev0.has_loss \/ ev0.has_tie
      THEN [status |-> FINAL,
            result |-> JObj([outcome |-> JStr(IF ev0.has_win THEN <<"W">>
                                              ELSE IF ev0.has_loss THEN <<"L">> ELSE <<"T">>),
                             sets |-> JStr(score_token(label))]),
            time_local |-> JNull]
      ELSE [status |-> IF label # <<>> THEN SCHEDULED ELSE TBD,
            result |-> JNull,
            time_local |-> IF label # <<>> THEN JStr(label) ELSE JNull]

\* parse_event(ev): the raw record (its rank, result and time fields), or
\* None for a row without opponent name
parse_event(ev0) ==
  LET nr == name_and_rank(ev0)
      r  == parse_result(ev0)
  IN  IF nr.opponent_name = <<>> THEN JNull
      ELSE JObj([time_local    |-> r.time_local,
                 nu_rank       |-> parse_nu_rank(ev0),
                 opp_rank      |-> parse_opp_rank(ev0),
                 opponent_name |-> JStr(nr.opponent_name),
                 status        |-> r.status,
                 result        |-> r.result])

(***************************************************************************)
(* main() (normalize_mbb_schedule.py)                                      *)
(***************************************************************************)

NoFile   == [k |-> "missing"]
Corrupt  == [k |-> "corrupt"]
Json(x)  == [k |-> "json", v |-> x]

\* What `for it in items` iterates over, given raw.get("items", []): the
\* elements of a list, the characters of a str; ok = FALSE when iterating
\* raises TypeError (None, a number).
items_of(raw) ==
  IF "items" \notin DOMAIN raw.v THEN [ok |-> TRUE, seq |-> <<>>]
  ELSE LET x == raw.v["items"]
       IN  CASE x.t = "list" -> [ok |-> TRUE, seq |-> x.v]
             [] x.t = "str"  -> [ok |-> TRUE, seq |-> [i \in DOMAIN x.v |-> JStr(<<x.v[i]>>)]]
             [] OTHER        -> [ok |-> FALSE, seq |-> <<>>]

\* main() up to the write: the rows to be written, or Raise.  A missing raw
\* file reads as {}, a corrupt one makes json.loads raise, a blob that is
\* not an object has no .get.
main_result(file, clock) ==
  IF file.k = "corrupt" THEN Raise
  ELSE LET raw == IF file.k = "missing" THEN JObj(<<>>) ELSE file.v
       IN  IF ~IsObj(raw) THEN Raise
           ELSE LET it == items_of(raw)
                    scraped_at == Or(Get(raw, "scraped_at"), JStr(<<>>))
                IN  IF ~it.ok THEN Raise ELSE normalize(it.seq, scraped_at, clock)

(***************************************************************************)
(* The raw blobs and clock readings the model draws from                   *)
(***************************************************************************)

MaxItems == 2

\* links of a raw record: copied to the row unchanged, so they tell which
\* record a row came from
Links(n) == JList(<<JObj([title |-> JStr(<<"B","o","x"," ","S","c","o","r","e">>), href |-> JStr(IntStr(n))])>>)

Result(o, sets) == JObj([outcome |-> JStr(o), sets |-> JStr(sets)])

\* The end-to-end scenario's record
ScenarioRecord ==
  JObj([opponent_name |-> JStr(<<"#","4"," ","P","u","r","d","u","e">>), date_text |-> JStr(<<"F","e","b"," ","1">>),
        status |-> JNull, result |-> Result(<<"W">>, <<"7","8","-","6","5">>)])

WellFormedRecords ==
  { ScenarioRecord,
    JObj([opponent_name |-> JStr(<<"B","i","g"," ","T","e","n"," ","F","i","r","s","t"," ","R","o","u","n","d">>),
          date_text |-> JStr(<<"M","a","r"," ","1","2">>), status |-> TBD, links |-> Links(2)]),
    JObj([opponent_name |-> JStr(<<" ","O","p","e","n","i","n","g"," ","N","i","g","h","t"," ","P","r","e","s","e","n","t","e","d"," ","b","y"," ","S","C","H","E","E","L","S">>),
          date |-> JStr(<<"2","0","2","4","-","1","0","-","2","7">>), time_local |-> JStr(<<"7",":","0","0"," ","P","M">>),
          status |-> SCHEDULED, links |-> Links(3)]),
    JObj([opponent_name |-> JStr(<<"P","u","r","d","u","e">>), date |-> JStr(<<"2","0","2","5","-","0","1","-","1","0">>),
          date_text |-> JStr(<<"J","a","n"," ","1","0">>), time_local |-> JStr(<<"7",":","0","0"," ","P","M">>),
          status |-> SCHEDULED, opp_rank |-> JInt(4), nu_rank |-> JInt(12),
          venue_type |-> JStr(<<"H">>), city |-> JStr(<<"L","i","n","c","o","l","n">>),
          arena |-> JStr(<<"P","i","n","n","a","c","l","e"," ","B","a","n","k"," ","A","r","e","n","a"," ","p","r","e","s","e","n","t","e","d"," ","b","y"," ","A","m","e","r","i","t","a","s">>),
          networks |-> JList(<<JStr(<<"F","S","1">>)>>), result |-> JNull, links |-> Links(4)]),
    JObj([opponent_name |-> JStr(<<"I","o","w","a">>), date |-> JStr(<<"2","0","2","5","-","0","1","-","1","0">>),
          time_local |-> JNull, status |-> TBD, links |-> Links(5)]),
    JObj([opponent_name |-> JStr(<<"I","o","w","a">>), date_text |-> JStr(<<"N","o","v"," ","5">>),
          time_local |-> JStr(<<"1","1",":","0","0"," ","A","M">>), status |-> JStr(<<"p","o","s","t","p","o","n","e","d">>),
          links |-> Links(6)]),
    JObj([opponent_name |-> JStr(<<"U","C","L","A">>), date_text |-> JStr(<<"J","a","n"," ","1","0">>),
          status |-> FINAL, result |-> Result(<<"L">>, <<"6","0","-","7","0">>), links |-> Links(7)]),
    JObj([opponent_name |-> JStr(<<"U","C","L","A">>), date_text |-> JStr(<<"F","e","b"," ","3","0">>),
          status |-> FINAL, links |-> Links(8)]),
    JObj([opponent_name |-> JStr(<<" ">>), date_text |-> JStr(<<"N","o","v"," ","5">>),
          links |-> Links(9)]),
    JObj([opponent_name |-> JStr(<<"R","u","t","g","e","r","s">>), date_text |-> JStr(<<"T","B","A">>),
          status |-> JNull, result |-> Result(<<"T">>, <<"6","0","-","6","0">>), links |-> Links(10)]) }

\* Records the claims call malformed: not an object, or a field of an
\* unexpected type
MalformedRecords ==
  { JStr(<<"P","u","r","d","u","e">>),
    JObj([opponent_name |-> JInt(5), date_text |-> JStr(<<"N","o","v"," ","5">>), links |-> Links(12)]),
    JObj([opponent_name |-> JStr(<<"P","u","r","d","u","e">>), date_text |-> JStr(<<"N","o","v"," ","5">>),
          result |-> JStr(<<"W">>), links |-> Links(13)]),
    JObj([opponent_name |-> JStr(<<"P","u","r","d","u","e">>), date_text |-> JStr(<<"N","o","v"," ","5">>),
          arena |-> JInt(7), links |-> Links(14)]),
    JObj([opponent_name |-> JStr(<<"P","u","r","d","u","e">>), date_text |-> JInt(5), links |-> Links(15)]) }

RawRecords == WellFormedRecords \cup MalformedRecords

\* scraped_at of the blob: timestamps as the scraper writes them, a text
\* that is no timestamp, and none
ScrapedAts ==
  { JStr(<<"2","0","2","5","-","0","2","-","0","1","T","1","2",":","0","0",":","0","0","Z">>),
    JStr(<<"2","0","2","5","-","0","2","-","0","2","T","0","0",":","0","0",":","0","0","Z">>),
    JStr(<<"2","0","2","5","-","0","4","-","0","1","T","0","3",":","0","0",":","0","0","Z">>),
    JStr(<<"2","0","2","5","-","0","4","-","0","1","T","0","6",":","0","0",":","0","0","Z">>),
    JStr(<<"y","e","s","t","e","r","d","a","y">>),
    JNull }

ItemSeqs(records) == UNION {[1..n -> records] : n \in 0..MaxItems}

Blobs(records) ==
  {Json(JObj([scraped_at |-> sa, items |-> JList(its)])) : sa \in ScrapedAts, its \in ItemSeqs(records)}

\* The raw file before a run: absent, not JSON, or a blob of well-formed records
RawFiles == {NoFile, Corrupt} \cup Blobs(WellFormedRecords)

\* The same with malformed records among the items
AnyRawFiles == {NoFile, Corrupt} \cup Blobs(RawRecords)

\* Clock readings in UTC, in order: 2025-04-01 03:00 (still March 31 in
\* Chicago) and 2025-04-01 06:00
ClockTimes ==
  << [y |-> 2025, m |-> 4, d |-> 1, h |-> 3],
     [y |-> 2025, m |-> 4, d |-> 1, h |-> 6] >>

NoEvent == [k |-> "none"]

(***************************************************************************)
(* The Normalizer as a state machine                                       *)
(***************************************************************************)

Init ==
  /\ rawFile \in RawFiles
  /\ outFile = NoFile
  /\ now = ClockTimes[1]
  /\ lastRun = "none"
  /\ ev = NoEvent
  /\ parsed = NoEvent

\* One run of main(): read the raw file, normalize, write the canonical
\* blob; an exception ends the run before the write.  lastRun tells whether
\* the run raised, created the canonical blob or replaced an existing one.
Main ==
  LET r == main_result(rawFile, now)
  IN  /\ outFile' = IF r.k = "rows" THEN Json([items |-> r.rows]) ELSE outFile
      /\ lastRun' = IF r.k # "rows" THEN "raised"
                    ELSE IF outFile = NoFile THEN "wrote" ELSE "rewrote"
      /\ UNCHANGED <<rawFile, now, ev, parsed>>

\* Time passes between runs
Tick ==
  /\ \E i \in DOMAIN ClockTimes, j \in DOMAIN ClockTimes :
       now = ClockTimes[i] /\ j > i /\ now' = ClockTimes[j]
  /\ UNCHANGED <<rawFile, outFile, lastRun, ev, parsed>>

Next == Main \/ Tick

Spec == Init /\ [][Next]_vars

\* The Normalizer on blobs that may hold malformed records
InitAnyJson ==
  /\ rawFile \in AnyRawFiles
  /\ outFile = NoFile
  /\ now = ClockTimes[1]
  /\ lastRun = "none"
  /\ ev = NoEvent
  /\ parsed = NoEvent

SpecAnyJson == InitAnyJson /\ [][Next]_vars

(***************************************************************************)
(* The Extractor on one event row                                          *)
(***************************************************************************)

MaxWrappers == 2

\* innerText of the opponent-name element (None: no element, or a timeout)
NameTexts ==
  { JNull, JStr(<<"P","u","r","d","u","e">>), JStr(<<"#","4"," ","P","u","r","d","u","e">>), JStr(<<"#"," ","1","2"," "," ","I","o","w","a">>),
    JStr(<<"#","0"," ","P","u","r","d","u","e">>), JStr(<<"#","1","0","0"," ","P","u","r","d","u","e">>) }

\* innerText of a logo wrapper
WrapperTexts == { JStr(<<>>), JStr(<<"#","1","2">>), JStr(<<"#","0">>), JStr(<<"#","1","0","0">>) }

\* innerText of a dedicated rank label (None: no such element)
RankLabels == { JNull, JStr(<<"#","2","5">>), JStr(<<"#","1","0","0">>) }

\* innerText of the result label
ResultLabels == { JNull, JStr(<<"7",":","0","0"," ","P","M">>), JStr(<<"W"," ","7","8","-","6","5">>) }

Events ==
  [ opponent_name : NameTexts,
    wrappers      : UNION {[1..n -> WrapperTexts] : n \in 0..MaxWrappers},
    home_rank     : RankLabels,
    away_rank     : RankLabels,
    has_win       : BOOLEAN,
    has_loss      : BOOLEAN,
    has_tie       : BOOLEAN,
    label         : ResultLabels ]

InitExtract ==
  /\ ev \in Events
  /\ parsed = NoEvent
  /\ rawFile = NoFile
  /\ outFile = NoFile
  /\ now = ClockTimes[1]
  /\ lastRun = "none"

\* parse_event on the row
ParseEvent ==
  /\ parsed = NoEvent
  /\ parsed' = [k |-> "parsed", v |-> parse_event(ev)]
  /\ UNCHANGED <<ev, rawFile, outFile, now, lastRun>>

NextExtract == ParseEvent

SpecExtract == InitExtract /\ [][NextExtract]_vars

(***************************************************************************)
(* Properties                                                              *)
(***************************************************************************)

Elements(seq) == {seq[i] : i \in DOMAIN seq}

\* The rows of the canonical blob (none before the first write)
OutRows == IF outFile.k = "json" THEN outFile.v.items ELSE <<>>

\* items and scraped_at of the raw blob
RawItems     == IF rawFile.k = "json" THEN Get(rawFile.v, "items").v ELSE <<>>
RawScrapedAt == IF rawFile.k = "json" THEN Get(rawFile.v, "scraped_at") ELSE JNull

Ran == lastRun \in {"wrote", "rewrote"}

\* Whether row is the row of raw record it: links are copied unchanged and
\* differ from record to record
RowOf(it, row) == IsObj(it) /\ Or(Get(it, "links"), JList(<<>>)) = row.links

\* The raw records of the rows, in the order of the rows
Sources(row) == {it \in Elements(RawItems) : RowOf(it, row)}

\* scraped_at is a timestamp that datetime.fromisoformat parses
ScrapedAtParses == IsStr(RawScrapedAt) /\ IsoParses(ReplaceZ(RawScrapedAt.v))

\* A row whose date was parsed from date_text
FromDateText(it) == ~Truthy(Get(it, "date"))

----------------------------------------------------------------------------
\* C1: a kept raw record whose opponent_name is "#<N> <Name>" and that has
\* no opp_rank yields a row with opponent = title = "<Name>" and
\* opp_rank = N; the scenario record captured at 2025-02-02T00:00:00Z yields
\* {date 2025-02-01, opponent Purdue, opp_rank 4, status final,
\* result "W 78-65", result_css W}.
C1_RankPrefixStripped ==
  /\ \A j \in DOMAIN OutRows : \A it \in Sources(OutRows[j]) :
       LET name == Get(it, "opponent_name")
           m    == name_rank_match(Strip(name.v))
       IN  (IsStr(name) /\ m.ok /\ IsNull(Get(it, "opp_rank")))
             => /\ OutRows[j].opponent = JStr(Strip(m.rest))
                /\ OutRows[j].title = JStr(Strip(m.rest))
                /\ OutRows[j].opp_rank = JInt(ParseInt(m.rank))
  /\ (/\ Ran
      /\ RawItems = <<ScenarioRecord>>
      /\ RawScrapedAt = JStr(<<"2","0","2","5","-","0","2","-","0","2","T","0","0",":","0","0",":","0","0","Z">>))
       => /\ Len(OutRows) = 1
          /\ OutRows[1].date = JStr(<<"2","0","2","5","-","0","2","-","0","1">>)
          /\ OutRows[1].opponent = JStr(<<"P","u","r","d","u","e">>)
          /\ OutRows[1].opp_rank = JInt(4)
          /\ OutRows[1].status = FINAL
          /\ OutRows[1].result = JStr(<<"W"," ","7","8","-","6","5">>)
          /\ OutRows[1].result_css = JStr(<<"W">>)

----------------------------------------------------------------------------
\* 'YYYY-MM-DD' naming a day of the calendar
IsRealDate(s) ==
  /\ Len(s) = 10
  /\ \A i \in {1, 2, 3, 4, 6, 7, 9, 10} : s[i] \in DigitSet
  /\ s[5] = "-" /\ s[8] = "-"
  /\ LET y == ParseInt(SubSeq(s, 1, 4))
         m == ParseInt(SubSeq(s, 6, 7))
         d == ParseInt(SubSeq(s, 9, 10))
     IN  m \in 1..12 /\ d \in 1..DaysInMonth(y, m)

\* C2: every row's date has the form YYYY-MM-DD and is a real calendar
\* date, whether it came from the record's date or from date_text.
C2_RealCalendarDates ==
  \A j \in DOMAIN OutRows : IsStr(OutRows[j].date) /\ IsRealDate(OutRows[j].date.v)

----------------------------------------------------------------------------
\* (date, time_local or "23:59" when absent)
AdjacentKey(row) ==
  <<row.date.v, IF IsNull(row.time_local) THEN <<"2","3",":","5","9">> ELSE row.time_local.v>>

\* a <= b, lexicographic on the pair
KeyLeq(a, b) ==
  \/ StrLess(a[1], b[1])
  \/ a[1] = b[1] /\ (StrLess(a[2], b[2]) \/ a[2] = b[2])

\* C3: for adjacent rows A then B, (A.date, A.time_local or "23:59") <=
\* (B.date, B.time_local or "23:59").
C3_AdjacentRowsOrdered ==
  \A j \in DOMAIN OutRows :
    j < Len(OutRows) => KeyLeq(AdjacentKey(OutRows[j]), AdjacentKey(OutRows[j + 1]))

\* Two rows with different keys that the sort exchanged
C3_SortExchangedRows ==
  /\ Ran
  /\ Len(RawItems) = 2 /\ Len(OutRows) = 2
  /\ RowOf(RawItems[1], OutRows[2]) /\ RowOf(RawItems[2], OutRows[1])
  /\ AdjacentKey(OutRows[1]) # AdjacentKey(OutRows[2])

----------------------------------------------------------------------------
\* C4: among rows of one date, a row without time_local comes after every
\* row that has one, whatever its text.
C4_AbsentTimeLast ==
  \A i \in DOMAIN OutRows : \A j \in DOMAIN OutRows :
    (i < j /\ OutRows[i].date = OutRows[j].date)
      => ~(IsNull(OutRows[i].time_local) /\ ~IsNull(OutRows[j].time_local))

----------------------------------------------------------------------------
\* C5: no row's opponent is, case-insensitively, the exhibition phrase or
\* begins with "big ten ", and no row has an empty opponent.
C5_NoPlaceholderRows ==
  \A j \in DOMAIN OutRows :
    LET opp == OutRows[j].opponent
    IN  /\ IsStr(opp) /\ opp.v # <<>>
        /\ LowerStr(opp.v) # OPENING_NIGHT
        /\ ~StartsWith(LowerStr(opp.v), BIG_TEN)

IsPlaceholder(it) ==
  IsObj(it) /\ IsStr(Get(it, "opponent_name"))
    /\ StartsWith(LowerStr(Strip(Get(it, "opponent_name").v)), BIG_TEN)

\* A run that dropped a "Big Ten ..." record and kept the other record
C5_PlaceholderDropped ==
  /\ Ran
  /\ Len(RawItems) = 2 /\ Len(OutRows) = 1
  /\ \E i \in DOMAIN RawItems : IsPlaceholder(RawItems[i])

----------------------------------------------------------------------------
\* C6: a second run on the same raw blob writes what the first wrote, for
\* every blob, whatever its scraped_at.
C6_RerunWritesSame == [][lastRun' = "rewrote" => outFile' = outFile]_vars

\* C6 as amended: a second run on the same raw blob writes what the first
\* wrote when the blob's scraped_at is a timestamp that parses.
C6_RerunWritesSameWhenTimestamped ==
  [][(lastRun' = "rewrote" /\ ScrapedAtParses) => outFile' = outFile]_vars

\* A blob with a timestamp, normalized again after the clock moved on, with
\* a row whose date came from date_text
C6_RerunLater ==
  /\ lastRun = "rewrote"
  /\ ScrapedAtParses
  /\ now = ClockTimes[2]
  /\ \E j \in DOMAIN OutRows : \E it \in Sources(OutRows[j]) : FromDateText(it)

----------------------------------------------------------------------------
\* C7: no run of the Normalizer ends in an exception, whatever the raw file
\* (missing, corrupt, or holding malformed records).
C7_RunAlwaysCompletes == lastRun # "raised"

----------------------------------------------------------------------------
RowYear(row)  == ParseInt(SubSeq(row.date.v, 1, 4))
RowMonth(row) == ParseInt(SubSeq(row.date.v, 6, 7))

\* The capture timestamp in US Central time
CaptureCentral ==
  LET f == IsoFields(ReplaceZ(RawScrapedAt.v))
  IN  CENTRAL([y |-> f.y, m |-> f.m, d |-> f.d, h |-> f.h])

\* The row of a record whose date_text is `text` has date `date`
ResolvesTo(text, date) ==
  \A j \in DOMAIN OutRows : \A it \in Sources(OutRows[j]) :
    (FromDateText(it) /\ Get(it, "date_text") = JStr(text)) => OutRows[j].date = JStr(date)

\* C8: for a record without ISO date, the year of the resolved date is the
\* season start year for August-December and the season start year plus 1
\* for January-July, the season start year being the capture year minus 1
\* when the capture, in US Central time, falls in January-March and the
\* capture year otherwise.  Capture 2025-02-01T12:00:00Z: "Nov 5" resolves to
\* 2024-11-05 and "Jan 10" to 2025-01-10; capture 2025-04-01T03:00:00Z is
\* still March 31 in Central time: "Nov 5" resolves to 2024-11-05.
C8_SeasonYear ==
  /\ ScrapedAtParses =>
       \A j \in DOMAIN OutRows : \A it \in Sources(OutRows[j]) :
         FromDateText(it) =>
           LET start == IF CaptureCentral.month \in 1..3
                        THEN CaptureCentral.year - 1 ELSE CaptureCentral.year
           IN  /\ RowMonth(OutRows[j]) \in 8..12 => RowYear(OutRows[j]) = start
               /\ RowMonth(OutRows[j]) \in 1..7  => RowYear(OutRows[j]) = start + 1
  /\ RawScrapedAt = JStr(<<"2","0","2","5","-","0","2","-","0","1","T","1","2",":","0","0",":","0","0","Z">>) =>
       /\ ResolvesTo(<<"N","o","v"," ","5">>, <<"2","0","2","4","-","1","1","-","0","5">>)
       /\ ResolvesTo(<<"J","a","n"," ","1","0">>, <<"2","0","2","5","-","0","1","-","1","0">>)
  /\ RawScrapedAt = JStr(<<"2","0","2","5","-","0","4","-","0","1","T","0","3",":","0","0",":","0","0","Z">>) =>
       ResolvesTo(<<"N","o","v"," ","5">>, <<"2","0","2","4","-","1","1","-","0","5">>)
  /\ RawScrapedAt = JStr(<<"2","0","2","5","-","0","4","-","0","1","T","0","6",":","0","0",":","0","0","Z">>) =>
       ResolvesTo(<<"N","o","v"," ","5">>, <<"2","0","2","5","-","1","1","-","0","5">>)

\* Capture 2025-02-01T12:00:00Z with a "Nov 5" and a "Jan 10" record resolved
C8_ScenarioResolved ==
  /\ Ran
  /\ RawScrapedAt = JStr(<<"2","0","2","5","-","0","2","-","0","1","T","1","2",":","0","0",":","0","0","Z">>)
  /\ \E i \in DOMAIN OutRows : \E j \in DOMAIN OutRows :
       /\ OutRows[i].date = JStr(<<"2","0","2","4","-","1","1","-","0","5">>)
       /\ OutRows[j].date = JStr(<<"2","0","2","5","-","0","1","-","1","0">>)
       /\ \E it \in Sources(OutRows[i]) : FromDateText(it)
       /\ \E it \in Sources(OutRows[j]) : FromDateText(it)

----------------------------------------------------------------------------
ValidStatus == {FINAL, SCHEDULED, TBD}

HasResult(it) == IsObj(Get(it, "result"))

\* C9: status is final, scheduled or tbd: the raw status when that is one
\* of the three, else final with a result and scheduled without; result is
\* "<outcome> <score>" exactly when the record has a result; result_css is
\* W, L, T or absent.
C9_StatusAndResult ==
  \A j \in DOMAIN OutRows : \A it \in Sources(OutRows[j]) :
    LET row == OutRows[j]
        res == Get(it, "result")
    IN  /\ row.status \in ValidStatus
        /\ Get(it, "status") \in ValidStatus => row.status = Get(it, "status")
        /\ Get(it, "status") \notin ValidStatus =>
             row.status = IF HasResult(it) THEN FINAL ELSE SCHEDULED
        /\ HasResult(it) =>
             row.result = JStr(Get(res, "outcome").v \o <<" ">> \o Get(res, "sets").v)
        /\ ~HasResult(it) => row.result = JNull
        /\ row.result_css \in {JStr(<<"W">>), JStr(<<"L">>), JStr(<<"T">>), JNull}

\* A row whose status was inferred from a result, and a row whose raw
\* status is none of the three
C9_StatusInferred ==
  /\ Ran
  /\ \E j \in DOMAIN OutRows : \E it \in Sources(OutRows[j]) :
       IsNull(Get(it, "status")) /\ HasResult(it)
  /\ \E j \in DOMAIN OutRows : \E it \in Sources(OutRows[j]) :
       Truthy(Get(it, "status")) /\ Get(it, "status") \notin ValidStatus

----------------------------------------------------------------------------
\* A rank marker whose number is zero or has three digits
OutOfRangeMarkers == { JStr(<<"#","0">>), JStr(<<"#","1","0","0">>) }

\* C10: nu_rank and opp_rank are absent or in 1..99, and a marker "#0" or
\* "#100" in a logo wrapper or a rank label is unmatched and gives no rank.
C10_RanksOneToNinetyNine ==
  (parsed.k = "parsed" /\ IsObj(parsed.v)) =>
    /\ \A f \in {"nu_rank", "opp_rank"} :
         \/ IsNull(Get(parsed.v, f))
         \/ Get(parsed.v, f).t = "int" /\ Get(parsed.v, f).v \in 1..99
    /\ (/\ Len(ev.wrappers) >= 1 /\ ev.wrappers[1] \in OutOfRangeMarkers
        /\ ev.home_rank \in OutOfRangeMarkers \cup {JNull})
         => IsNull(Get(parsed.v, "nu_rank"))

====
